---------------------------- MODULE Spec2Model ----------------------------
(***************************************************************************)
(* Model of the CSV marker importer (src/hockey_markers.jsx, the final    *)
(* definitions of readCSV, parseCSVData, parseTimeString, insertMarkers   *)
(* and main, lines 256-432).                                               *)
(*                                                                         *)
(* Texts are sequences of one-character strings, so that trim, split, the  *)
(* quote-stripping replace, parseFloat and parseInt are computed character *)
(* by character.  Numbers are decimal fractions m / 10^e kept in lowest    *)
(* form, NaN is a separate value.                                          *)
(***************************************************************************)
EXTENDS Integers, Sequences, FiniteSets, TLC

(***************************************************************************)
(* Bounds of the model.                                                    *)
(***************************************************************************)
MaxTimeLen == 4
MaxLineLen == 4
MaxLines == 3

(***************************************************************************)
(* Characters.                                                             *)
(***************************************************************************)
DigitChars == <<"0", "1", "2", "3", "4", "5", "6", "7", "8", "9">>

IsDigit(c) == \E k \in 1..10 : DigitChars[k] = c

DigitVal(c) == (CHOOSE k \in 1..10 : DigitChars[k] = c) - 1

IsSpace(c) == c = " "

IsQuote(c) == c = "\"" \/ c = "'"

Pow10(n) == IF n = 0 THEN 1
            ELSE IF n = 1 THEN 10
            ELSE IF n = 2 THEN 100
            ELSE IF n = 3 THEN 1000
            ELSE IF n = 4 THEN 10000
            ELSE IF n = 5 THEN 100000
            ELSE 1000000

Drop(s, n) == IF n >= Len(s) THEN <<>> ELSE SubSeq(s, n + 1, Len(s))

(***************************************************************************)
(* trim: str.replace(/^\s+|\s+$/g, '')                                     *)
(***************************************************************************)
RECURSIVE TrimLeft(_)
TrimLeft(s) == IF s # <<>> /\ IsSpace(Head(s)) THEN TrimLeft(Tail(s)) ELSE s

RECURSIVE TrimRight(_)
TrimRight(s) == IF s # <<>> /\ IsSpace(s[Len(s)])
                THEN TrimRight(SubSeq(s, 1, Len(s) - 1))
                ELSE s

trim(s) == TrimRight(TrimLeft(s))

(***************************************************************************)
(* String.prototype.split with a one-character separator: n separators     *)
(* give n + 1 parts, the empty text gives one empty part.                  *)
(***************************************************************************)
RECURSIVE SplitAcc(_, _, _)
SplitAcc(s, sep, cur) ==
  IF s = <<>> THEN <<cur>>
  ELSE IF Head(s) = sep THEN <<cur>> \o SplitAcc(Tail(s), sep, <<>>)
  ELSE SplitAcc(Tail(s), sep, Append(cur, Head(s)))

split(s, sep) == SplitAcc(s, sep, <<>>)

(***************************************************************************)
(* Numbers: NaN, or the decimal fraction m / 10^e in lowest form.          *)
(***************************************************************************)
NaN == [nan |-> TRUE, m |-> 0, e |-> 0]

RECURSIVE Norm(_, _)
Norm(m, e) == IF e > 0 /\ m % 10 = 0 THEN Norm(m \div 10, e - 1)
              ELSE [nan |-> FALSE, m |-> m, e |-> e]

isNaN(x) == x.nan

RECURSIVE DigitRun(_)
DigitRun(s) == IF s # <<>> /\ IsDigit(Head(s)) THEN 1 + DigitRun(Tail(s)) ELSE 0

RECURSIVE DigitsVal(_, _)
DigitsVal(s, acc) == IF s = <<>> THEN acc
                     ELSE DigitsVal(Tail(s), acc * 10 + DigitVal(Head(s)))

(***************************************************************************)
(* parseFloat: skips leading white space, then reads the longest prefix    *)
(* that is a decimal literal (sign, digits, '.', digits) and ignores the   *)
(* rest of the text; NaN when no such prefix exists.                       *)
(***************************************************************************)
parseFloat(str) ==
  LET s    == TrimLeft(str)
      neg  == s # <<>> /\ Head(s) = "-"
      sgn  == s # <<>> /\ (Head(s) = "-" \/ Head(s) = "+")
      body == IF sgn THEN Tail(s) ELSE s
      n1   == DigitRun(body)
      rest == Drop(body, n1)
      dot  == rest # <<>> /\ Head(rest) = "."
      n2   == IF dot THEN DigitRun(Tail(rest)) ELSE 0
      ip   == DigitsVal(SubSeq(body, 1, n1), 0)
      fp   == IF n2 > 0 THEN DigitsVal(SubSeq(Tail(rest), 1, n2), 0) ELSE 0
      mag  == ip * Pow10(n2) + fp
  IN  IF n1 = 0 /\ n2 = 0 THEN NaN
      ELSE Norm(IF neg THEN 0 - mag ELSE mag, n2)

(***************************************************************************)
(* parseInt(text, 10): leading white space, sign, longest run of digits.   *)
(***************************************************************************)
parseInt(str) ==
  LET s    == TrimLeft(str)
      neg  == s # <<>> /\ Head(s) = "-"
      sgn  == s # <<>> /\ (Head(s) = "-" \/ Head(s) = "+")
      body == IF sgn THEN Tail(s) ELSE s
      n1   == DigitRun(body)
      mag  == DigitsVal(SubSeq(body, 1, n1), 0)
  IN  IF n1 = 0 THEN NaN
      ELSE Norm(IF neg THEN 0 - mag ELSE mag, 0)

(***************************************************************************)
(* hours * 3600 + minutes * 60 + secs                                      *)
(***************************************************************************)
HmsSeconds(hours, minutes, secs) ==
  Norm((hours.m * 3600 + minutes.m * 60) * Pow10(secs.e) + secs.m, secs.e)

(***************************************************************************)
(* parseTimeString: the number of seconds, or the thrown error.            *)
(***************************************************************************)
TimeOk(x) == [ok |-> TRUE, val |-> x]

TimeError == [ok |-> FALSE, val |-> NaN]

parseTimeString(timeStr0) ==
  LET timeStr == trim(timeStr0)
      seconds == parseFloat(timeStr)
      parts   == split(timeStr, ":")
      hours   == parseInt(parts[1])
      minutes == parseInt(parts[2])
      secs    == parseFloat(parts[3])
  IN  IF ~isNaN(seconds) THEN TimeOk(seconds)
      ELSE IF Len(parts) = 3 /\ ~isNaN(hours) /\ ~isNaN(minutes) /\ ~isNaN(secs)
           THEN TimeOk(HmsSeconds(hours, minutes, secs))
      ELSE TimeError


(***************************************************************************)
(* readCSV, lines 282-285: the line is split on ',' and each piece has a   *)
(* quote removed from its start and from its end, and is trimmed after.    *)
(***************************************************************************)
stripQuotes(col) ==
  LET a == IF col # <<>> /\ IsQuote(Head(col)) THEN Tail(col) ELSE col
  IN  IF a # <<>> /\ IsQuote(a[Len(a)]) THEN SubSeq(a, 1, Len(a) - 1) ELSE a

cleanField(col) == trim(stripQuotes(col))

cleanColumns(line) ==
  LET pieces == split(line, ",")
  IN  [k \in 1..Len(pieces) |-> cleanField(pieces[k])]

isBlankLine(line) == line = <<>> \/ trim(line) = <<>>

(***************************************************************************)
(* Sets of input texts.                                                    *)
(***************************************************************************)
RECURSIVE TextsUpTo(_, _)
TextsUpTo(alphabet, n) ==
  IF n = 0 THEN {<<>>}
  ELSE LET shorter == TextsUpTo(alphabet, n - 1)
       IN  shorter \cup {Append(t, c) : t \in shorter, c \in alphabet}

TimeAlphabet == {"0", "1", "5", ":", ".", "-", " ", "x"}

HourTexts == {<<"0", "1">>, <<"0", "0">>, <<"2">>}

MinuteTexts == {<<"0", "2">>, <<"0", "0">>, <<"x">>}

SecondTexts == {<<"0", "3", ".", "5">>, <<"1", "0">>, <<>>}

HmsTexts == {h \o <<":">> \o m \o <<":">> \o s :
               h \in HourTexts, m \in MinuteTexts, s \in SecondTexts}

TimeInputs == TextsUpTo(TimeAlphabet, MaxTimeLen) \cup HmsTexts

LineAlphabet == {"5", ",", "\"", "'", " "}

QuotedLine == <<"\"", "5", "\"", ",", " ", "\"", "N", "\"">>

LineInputs == TextsUpTo(LineAlphabet, MaxLineLen) \cup {QuotedLine}

LineTexts == { <<"t", ",", "c">>,
               <<"t">>,
               <<>>,
               <<"5", ",", "a">>,
               <<"7", ",", "b">>,
               <<",", "a">>,
               <<"5", ",">>,
               <<"x", ",", "a">> }

RECURSIVE FilesUpTo(_)
FilesUpTo(n) ==
  IF n = 0 THEN {<<>>}
  ELSE LET shorter == FilesUpTo(n - 1)
       IN  shorter \cup {Append(f, l) : f \in shorter, l \in LineTexts}

(***************************************************************************)
(* State.                                                                  *)
(*   timeStr, timeRes    argument and outcome of one parseTimeString call  *)
(*   lineText, lineCols  one line and the columns readCSV makes of it      *)
(*   fileSel, lines      the file the dialog returns and its lines         *)
(*   activeSequence      whether app.project.activeSequence is set         *)
(*   pc, err             position of main and the error it ended with      *)
(*   handle              the File object of readCSV                        *)
(*   lineNumber, isFirstLine, data     locals of readCSV                   *)
(*   i, markers                        locals of parseCSVData              *)
(*   insertedCount, skippedCount       locals of insertMarkers             *)
(*   timeline            the markers of the active sequence                *)
(*   warnings            the per-row warning lines written by log          *)
(* Rows, marker records and warnings carry the number of the file line     *)
(* they come from in a field "line" that the program does not keep; it is  *)
(* only read by the properties.                                            *)
(***************************************************************************)
VARIABLES timeStr, timeRes, lineText, lineCols,
          fileSel, lines, activeSequence, pc, err, handle,
          lineNumber, isFirstLine, data, i, markers,
          insertedCount, skippedCount, timeline, warnings

pureVars == <<timeStr, timeRes, lineText, lineCols>>

inputVars == <<fileSel, lines, activeSequence>>

runVars == <<pc, err, handle, lineNumber, isFirstLine, data, i, markers,
             insertedCount, skippedCount, timeline, warnings>>

vars == <<pureVars, inputVars, runVars>>

NotCalled == [ok |-> FALSE, val |-> NaN, called |-> FALSE]

PureIdle == /\ timeStr = <<>>
            /\ timeRes = NotCalled
            /\ lineText = <<>>
            /\ lineCols = <<>>

RunStart == /\ pc = "select"
            /\ err = "none"
            /\ handle = "unopened"
            /\ lineNumber = 0
            /\ isFirstLine = TRUE
            /\ data = <<>>
            /\ i = 0
            /\ markers = <<>>
            /\ insertedCount = 0
            /\ skippedCount = 0
            /\ timeline = <<>>
            /\ warnings = <<>>

RunIdle == /\ fileSel = "none"
           /\ lines = <<>>
           /\ activeSequence = FALSE
           /\ RunStart

(***************************************************************************)
(* One call of parseTimeString.                                            *)
(***************************************************************************)
InitTime == /\ timeStr \in TimeInputs
            /\ timeRes = NotCalled
            /\ lineText = <<>>
            /\ lineCols = <<>>
            /\ RunIdle

CallParseTime ==
  /\ ~timeRes.called
  /\ timeRes' = [ok |-> parseTimeString(timeStr).ok,
                  val |-> parseTimeString(timeStr).val,
                  called |-> TRUE]
  /\ UNCHANGED <<timeStr, lineText, lineCols, inputVars, runVars>>

NextTime == CallParseTime

SpecTime == InitTime /\ [][NextTime]_vars

(***************************************************************************)
(* One line through the column clean-up of readCSV.                        *)
(***************************************************************************)
InitLine == /\ lineText \in LineInputs
            /\ lineCols = <<>>
            /\ timeStr = <<>>
            /\ timeRes = NotCalled
            /\ RunIdle

CleanLine ==
  /\ lineCols = <<>>
  /\ lineCols' = cleanColumns(lineText)
  /\ UNCHANGED <<timeStr, timeRes, lineText, inputVars, runVars>>

NextLine == CleanLine

SpecLine == InitLine /\ [][NextLine]_vars

(***************************************************************************)
(* The import run: main and the functions it calls.                        *)
(***************************************************************************)
Init == /\ PureIdle
        /\ fileSel \in {"none", "missing", "present"}
        /\ lines \in (IF fileSel = "present" THEN FilesUpTo(MaxLines) ELSE {<<>>})
        /\ activeSequence \in BOOLEAN
        /\ RunStart

(* main, lines 427-429: the catch of main logs the error and the run ends. *)
Fatal(kind) == /\ pc' = "error"
               /\ err' = kind

(* readCSV, lines 306-308: finally { file.close() } on every way out.      *)
CloseOnExitReturnOnly(h, way) == IF way = "return" THEN "closed" ELSE h

CloseOnExit(h, way) == "closed"

(* main, lines 420-422: no row came out of readCSV.                        *)
EmptyDataCheckMissing(d) == FALSE

EmptyDataCheck(d) == Len(d) = 0

(* insertMarkers, line 376.                                                *)
InitialSkippedCountsDropped == Len(data) - Len(markers)

InitialSkipped == 0

(* insertMarkers, lines 384 and 387: one of the two counters goes up.      *)
NextCountsSkipNotCounted(failed, ins, skp) ==
  IF failed THEN [inserted |-> ins, skipped |-> skp]
  ELSE [inserted |-> ins + 1, skipped |-> skp]

NextCounts(failed, ins, skp) ==
  IF failed THEN [inserted |-> ins, skipped |-> skp + 1]
  ELSE [inserted |-> ins + 1, skipped |-> skp]

(* insertMarkers, lines 385-388: the catch swallows the error of one       *)
(* record and the loop goes on.                                            *)
AfterRecordRethrow(failed) == IF failed THEN "error" ELSE "insert"

AfterRecord(failed) == "insert"

(* main, lines 412-415: selectCSVFile returns a path or null.              *)
SelectCSVFile ==
  /\ pc = "select"
  /\ IF fileSel = "none"
     THEN Fatal("NoFileSelected")
     ELSE pc' = "open" /\ err' = err
  /\ UNCHANGED <<pureVars, inputVars, handle, lineNumber, isFirstLine, data, i,
                 markers, insertedCount, skippedCount, timeline, warnings>>

(* readCSV, lines 262-271: existence check, then open.                     *)
OpenFile ==
  /\ pc = "open"
  /\ IF fileSel = "missing"
     THEN /\ Fatal("FileNotFound")
          /\ UNCHANGED <<handle, data, isFirstLine, lineNumber>>
     ELSE /\ handle' = "open"
          /\ data' = <<>>
          /\ isFirstLine' = TRUE
          /\ lineNumber' = 0
          /\ pc' = "read"
          /\ err' = err
  /\ UNCHANGED <<pureVars, inputVars, i, markers, insertedCount, skippedCount,
                 timeline, warnings>>

(* readCSV, lines 273-303: one turn of the while loop.                     *)
ReadLine ==
  /\ pc = "read"
  /\ lineNumber < Len(lines)
  /\ lineNumber' = lineNumber + 1
  /\ LET line    == lines[lineNumber + 1]
         columns == cleanColumns(line)
     IN  IF isBlankLine(line)
         THEN UNCHANGED <<pc, err, handle, isFirstLine, data, warnings>>
         ELSE IF isFirstLine
         THEN IF Len(columns) < 2
              THEN /\ Fatal("HeaderInvalid")
                   /\ handle' = CloseOnExit(handle, "throw")
                   /\ UNCHANGED <<isFirstLine, data, warnings>>
              ELSE /\ isFirstLine' = FALSE
                   /\ UNCHANGED <<pc, err, handle, data, warnings>>
         ELSE IF Len(columns) < 2
         THEN /\ warnings' = Append(warnings,
                    [kind |-> "columns", num |-> lineNumber + 1,
                     line |-> lineNumber + 1])
              /\ UNCHANGED <<pc, err, handle, isFirstLine, data>>
         ELSE /\ data' = Append(data, [cols |-> columns, line |-> lineNumber + 1])
              /\ UNCHANGED <<pc, err, handle, isFirstLine, warnings>>
  /\ UNCHANGED <<pureVars, inputVars, i, markers, insertedCount, skippedCount,
                 timeline>>

(* readCSV, lines 273-308: the host throws while a line is read.           *)
ReadLineError ==
  /\ pc = "read"
  /\ lineNumber < Len(lines)
  /\ lineNumber' = lineNumber + 1
  /\ Fatal("ReadError")
  /\ handle' = CloseOnExit(handle, "throw")
  /\ UNCHANGED <<pureVars, inputVars, isFirstLine, data, i, markers,
                 insertedCount, skippedCount, timeline, warnings>>

(* readCSV, lines 305-308, and main, lines 418-422: end of file.           *)
ReadReturn ==
  /\ pc = "read"
  /\ lineNumber = Len(lines)
  /\ handle' = CloseOnExit(handle, "return")
  /\ IF EmptyDataCheck(data)
     THEN Fatal("EmptyData") /\ UNCHANGED <<i, markers>>
     ELSE /\ pc' = "parse"
          /\ err' = err
          /\ i' = 0
          /\ markers' = <<>>
  /\ UNCHANGED <<pureVars, inputVars, lineNumber, isFirstLine, data,
                 insertedCount, skippedCount, timeline, warnings>>

(* parseCSVData, lines 313-334: one turn of the for loop.                  *)
ParseRow ==
  /\ pc = "parse"
  /\ i < Len(data)
  /\ i' = i + 1
  /\ LET row       == data[i + 1]
         timestamp == row.cols[1]
         comment   == row.cols[2]
     IN  IF timestamp = <<>>
         THEN /\ warnings' = Append(warnings,
                    [kind |-> "emptyTimestamp", num |-> i + 2, line |-> row.line])
              /\ UNCHANGED markers
         ELSE IF comment = <<>>
         THEN /\ warnings' = Append(warnings,
                    [kind |-> "emptyComment", num |-> i + 2, line |-> row.line])
              /\ UNCHANGED markers
         ELSE /\ markers' = Append(markers,
                    [timestamp |-> timestamp, comment |-> comment,
                     line |-> row.line])
              /\ UNCHANGED warnings
  /\ UNCHANGED <<pureVars, inputVars, pc, err, handle, lineNumber, isFirstLine,
                 data, insertedCount, skippedCount, timeline>>

(* parseCSVData, lines 336-340.                                            *)
ParseReturn ==
  /\ pc = "parse"
  /\ i = Len(data)
  /\ IF Len(markers) = 0
     THEN Fatal("NoValidMarkers")
     ELSE pc' = "begin" /\ err' = err
  /\ UNCHANGED <<pureVars, inputVars, handle, lineNumber, isFirstLine, data, i,
                 markers, insertedCount, skippedCount, timeline, warnings>>

(* insertMarkers, lines 370-376.                                           *)
InsertBegin ==
  /\ pc = "begin"
  /\ IF ~activeSequence
     THEN /\ Fatal("NoActiveSequence")
          /\ UNCHANGED <<i, insertedCount, skippedCount>>
     ELSE /\ pc' = "insert"
          /\ err' = err
          /\ i' = 0
          /\ insertedCount' = 0
          /\ skippedCount' = InitialSkipped
  /\ UNCHANGED <<pureVars, inputVars, handle, lineNumber, isFirstLine, data,
                 markers, timeline, warnings>>

(***************************************************************************)
(* insertMarkers, lines 378-389: one turn of the for loop.  Inside the try *)
(* parseTimeString may throw, createMarker may throw before a marker       *)
(* exists, and the assignment of the name may throw after createMarker has *)
(* put the marker on the sequence; the catch is the same for all three.    *)
(***************************************************************************)
SinkOutcomes == {"placed", "createThrows", "nameThrows"}

InsertMarker ==
  /\ pc = "insert"
  /\ i < Len(markers)
  /\ i' = i + 1
  /\ \E sink \in SinkOutcomes :
       LET marker == markers[i + 1]
           time   == parseTimeString(marker.timestamp)
           failed == ~time.ok \/ sink # "placed"
           counts == NextCounts(failed, insertedCount, skippedCount)
       IN  /\ timeline' =
                IF ~time.ok \/ sink = "createThrows" THEN timeline
                ELSE IF sink = "nameThrows"
                THEN Append(timeline, [time |-> time.val, name |-> <<>>])
                ELSE Append(timeline, [time |-> time.val, name |-> marker.comment])
           /\ warnings' =
                IF failed
                THEN Append(warnings,
                       [kind |-> "insert", num |-> i + 2, line |-> marker.line])
                ELSE warnings
           /\ insertedCount' = counts.inserted
           /\ skippedCount' = counts.skipped
           /\ pc' = AfterRecord(failed)
           /\ err' = IF AfterRecord(failed) = "error" THEN "InsertFailed" ELSE err
  /\ UNCHANGED <<pureVars, inputVars, handle, lineNumber, isFirstLine, data,
                 markers>>

(* insertMarkers, lines 391-398, and main, line 426: the summary.          *)
InsertReturn ==
  /\ pc = "insert"
  /\ i = Len(markers)
  /\ pc' = "done"
  /\ UNCHANGED <<pureVars, inputVars, err, handle, lineNumber, isFirstLine, data,
                 i, markers, insertedCount, skippedCount, timeline, warnings>>

Next == \/ SelectCSVFile
        \/ OpenFile
        \/ ReadLine
        \/ ReadLineError
        \/ ReadReturn
        \/ ParseRow
        \/ ParseReturn
        \/ InsertBegin
        \/ InsertMarker
        \/ InsertReturn

Spec == Init /\ [][Next]_vars

(***************************************************************************)
(* Properties.                                                             *)
(***************************************************************************)

(* C1: for every text H:M:S with exactly three colon-separated parts,      *)
(* where H and M are runs of digits and S is digits with an optional       *)
(* fraction, parseTimeString returns H*3600 + M*60 + S.                    *)
C1_HmsValue ==
  LET parts == split(timeStr, ":")
      allDigits(t) == t # <<>> /\ DigitRun(t) = Len(t)
      intLen(t) == DigitRun(t)
      fracOf(t) == Drop(t, intLen(t) + 1)
      decimal(t) == /\ intLen(t) > 0
                    /\ \/ intLen(t) = Len(t)
                       \/ t[intLen(t) + 1] = "." /\ allDigits(fracOf(t))
      hms == Len(parts) = 3 /\ allDigits(parts[1]) /\ allDigits(parts[2])
             /\ decimal(parts[3])
      expected ==
        Norm((DigitsVal(parts[1], 0) * 3600 + DigitsVal(parts[2], 0) * 60)
               * Pow10(Len(fracOf(parts[3])))
             + DigitsVal(SubSeq(parts[3], 1, intLen(parts[3])), 0)
               * Pow10(Len(fracOf(parts[3])))
             + DigitsVal(fracOf(parts[3]), 0),
             Len(fracOf(parts[3])))
  IN  (timeRes.called /\ hms) => (timeRes.ok /\ timeRes.val = expected)

(* C2: parseTimeString never returns a number for a text that is neither  *)
(* a plain decimal number nor three colon-separated parts; stated for the  *)
(* texts the claim names, those with 2 or 4 colon-separated parts, which   *)
(* always raise the error.                                                 *)
C2_TwoOrFourPartsFail ==
  (timeRes.called /\ Len(split(trim(timeStr), ":")) \in {2, 4}) => ~timeRes.ok

(* C3: each field readCSV emits is the comma-separated piece trimmed first *)
(* and then stripped of its surrounding quotes, whether "one matching"     *)
(* quote is read as a pair of equal quotes or as a quote at either end.    *)
C3_TrimThenUnquote ==
  LET pieces == split(lineText, ",")
      stripPair(t) == IF Len(t) >= 2 /\ IsQuote(t[1]) /\ t[Len(t)] = t[1]
                      THEN SubSeq(t, 2, Len(t) - 1)
                      ELSE t
  IN  lineCols # <<>> =>
        /\ Len(lineCols) = Len(pieces)
        /\ \A k \in 1..Len(pieces) :
             \/ lineCols[k] = stripPair(trim(pieces[k]))
             \/ lineCols[k] = stripQuotes(trim(pieces[k]))

(* C4: the markers on the timeline are exactly the records counted as      *)
(* inserted, one marker per record, in file order; a skipped record leaves *)
(* no marker behind.                                                       *)
C4_TimelineIsInserted ==
  LET failedIdx == {warnings[k].num - 1 : k \in
                      {j \in 1..Len(warnings) : warnings[j].kind = "insert"}}
      kept == SelectSeq([k \in 1..i |-> k], LAMBDA k : k \notin failedIdx)
  IN  pc \in {"insert", "done"} =>
        /\ Len(kept) = insertedCount
        /\ timeline = [j \in 1..Len(kept) |->
                         [time |-> parseTimeString(markers[kept[j]].timestamp).val,
                          name |-> markers[kept[j]].comment]]

(* C5: in the loop of insertMarkers insertedCount + skippedCount is the    *)
(* number of records attempted, both counts are non-negative, and in the   *)
(* returned result they sum to the number of marker records.               *)
C5_CountsSum ==
  pc \in {"insert", "done"} =>
    /\ insertedCount >= 0
    /\ skippedCount >= 0
    /\ insertedCount + skippedCount = i
    /\ (pc = "done" => insertedCount + skippedCount = Len(markers))

C5_Witness == pc = "done" /\ insertedCount >= 1 /\ skippedCount >= 1

(* C6, as stated: the final skippedCount is the number of all rows that    *)
(* met a recoverable failure (too few fields, empty timestamp or comment,  *)
(* unparseable timestamp, sink rejection).                                 *)
C6_AllFailuresCounted == pc = "done" => skippedCount = Len(warnings)

(* C6, amended: the final skippedCount is the number of marker records     *)
(* whose timestamp did not parse or whose placement threw; rows dropped by *)
(* readCSV or parseCSVData are not counted.                                *)
C6_InsertFailuresCounted ==
  pc = "done" =>
    skippedCount =
      Cardinality({k \in 1..Len(warnings) : warnings[k].kind = "insert"})

C6_Witness ==
  /\ pc = "done"
  /\ skippedCount >= 1
  /\ \E k \in 1..Len(warnings) : warnings[k].kind # "insert"

(* C7: a run that ends with a fatal error has placed no marker, and once a *)
(* marker is placed the run is in the insert loop or has ended with the    *)
(* summary.                                                                *)
C7_FatalBeforeMarkers ==
  /\ pc = "error" => timeline = <<>>
  /\ timeline # <<>> => pc \in {"insert", "done"}

C7_Witness ==
  /\ pc = "error"
  /\ err = "NoActiveSequence"
  /\ Len(markers) >= 1
  /\ timeline = <<>>

(* C8: the file handle is open only while readCSV reads; it is closed on   *)
(* every way out of readCSV and no run ends with it open.                  *)
C8_HandleClosed ==
  /\ handle = "open" => pc = "read"
  /\ pc \in {"error", "done"} => handle # "open"

C8_Witness == pc = "error" /\ err = "HeaderInvalid" /\ handle = "closed"

(* C9, as stated: a file with a valid header and no data rows ends the run *)
(* with NoValidMarkers.                                                    *)
C9_HeaderOnlyNoValidMarkers ==
  LET nonBlank == {k \in 1..Len(lines) : ~isBlankLine(lines[k])}
      headerOnly == /\ fileSel = "present"
                    /\ Cardinality(nonBlank) = 1
                    /\ \A k \in nonBlank : Len(cleanColumns(lines[k])) >= 2
  IN  (headerOnly /\ pc \in {"error", "done"} /\ err # "ReadError") =>
        (pc = "error" /\ err = "NoValidMarkers")

(* C9, amended: a file with a valid header and no data rows, read without  *)
(* a read error, ends the run with the fatal error main raises when        *)
(* readCSV returns no rows; parseCSVData is not reached and no marker is   *)
(* placed.                                                                 *)
C9_HeaderOnlyEmptyData ==
  LET nonBlank == {k \in 1..Len(lines) : ~isBlankLine(lines[k])}
      headerOnly == /\ fileSel = "present"
                    /\ Cardinality(nonBlank) = 1
                    /\ \A k \in nonBlank : Len(cleanColumns(lines[k])) >= 2
  IN  /\ (headerOnly /\ pc \in {"error", "done"} /\ err # "ReadError") =>
           (pc = "error" /\ err = "EmptyData" /\ timeline = <<>>)
      /\ headerOnly => pc \notin {"parse", "begin", "insert"}

C9_Witness ==
  /\ fileSel = "present"
  /\ Len(lines) >= 1
  /\ Cardinality({k \in 1..Len(lines) : ~isBlankLine(lines[k])}) = 1
  /\ pc = "error"
  /\ err = "EmptyData"

(* C10: the number in a warning of parseCSVData or insertMarkers           *)
(* (index + 2) is the 1-based number of the file line the row came from.   *)
C10_RowNumberIsLine ==
  \A k \in 1..Len(warnings) :
    warnings[k].kind \in {"emptyTimestamp", "emptyComment", "insert"} =>
      warnings[k].num = warnings[k].line

=============================================================================
